---- MODULE Spec2Model ----
(***************************************************************************)
(* Model of src/viz.py: the modular-complex placement optimiser            *)
(* (calculate_optimal_placements and its helpers) and the Streamlit script *)
(* that drives it.                                                         *)
(*                                                                         *)
(* Units.  A coordinate is an integer number of map units; one map unit is *)
(* 1/111320 of a degree.  The parcels drawn below lie at a latitude whose  *)
(* cosine is 1/2, so meters_to_degrees(m, lat) = m / (111320 * cos(lat))   *)
(* is 2*m map units, and  area * 111320**2  is the area in square map      *)
(* units.  Weights (0.1 .. 1.0 in the sliders) are counted in tenths, so a *)
(* score is in tenths as well.  Arithmetic is exact.                       *)
(***************************************************************************)
EXTENDS Integers, Sequences, FiniteSets, TLC

VARIABLES
  args,           \* the arguments of the call of calculate_optimal_placements
  ret,            \* how the call ended: what it returned or raised
  pc,             \* where the call, or the run of the script, stands
  widgets,        \* the values of the sidebar widgets in this run of the script
  button,         \* whether this run was started by the calculate button
  session_state,  \* st.session_state.placements, kept from run to run
  screen,         \* what this run of the script has put on the page
  since_request,  \* history: what the user did since the button was last pressed
  run             \* a run of one of the other scripts (src/app.py, src/new.py)

vars == <<args, ret, pc, widgets, button, session_state, screen, since_request, run>>

\* the variables of src/viz.py
viz == <<args, ret, pc, widgets, button, session_state, screen, since_request>>

(***************************************************************************)
(* Constants of the program.                                               *)
(***************************************************************************)
\* src/viz.py:52-53  lon_step = (max_lon - min_lon) / 20
GridSteps == 20
\* src/viz.py:260  'max_results': 15
MaxResults == 15

\* src/viz.py:16-23
SECTION_TYPES ==
  [ Zhiloy_L |-> [size |-> <<28, 16>>, color |-> "#1f77b4", type |-> "living",  floors |-> TRUE],
    Zhiloy_M |-> [size |-> <<26, 16>>, color |-> "#4b78ca", type |-> "living",  floors |-> TRUE],
    Zhiloy_S |-> [size |-> <<18, 18>>, color |-> "#8ab4f7", type |-> "living",  floors |-> TRUE],
    Parking  |-> [size |-> <<20, 15>>, color |-> "#7f7f7f", type |-> "parking", floors |-> FALSE],
    Shkola   |-> [size |-> <<30, 25>>, color |-> "#2ca02c", type |-> "social",  floors |-> FALSE],
    Skver    |-> [size |-> <<25, 25>>, color |-> "#9467bd", type |-> "green",   floors |-> FALSE] ]

None == [kind |-> "None"]

(***************************************************************************)
(* Small helpers.                                                          *)
(***************************************************************************)
Min(a, b) == IF a <= b THEN a ELSE b
Max(a, b) == IF a >= b THEN a ELSE b
Abs(a) == IF a >= 0 THEN a ELSE -a

RECURSIVE SeqSum(_)
SeqSum(s) == IF s = <<>> THEN 0 ELSE Head(s) + SeqSum(Tail(s))

RECURSIVE SeqMax(_)
SeqMax(s) == IF Len(s) = 1 THEN s[1] ELSE Max(Head(s), SeqMax(Tail(s)))

(***************************************************************************)
(* Geometry (shapely).  A point is <<x, y>>; a box is a record; a polygon  *)
(* is the sequence of its vertices.  The parcels of this model are convex  *)
(* (or degenerate), for which containment is the half-plane test.          *)
(***************************************************************************)
box(minx, miny, maxx, maxy) == [minx |-> minx, miny |-> miny, maxx |-> maxx, maxy |-> maxy]

\* box.area
BoxArea(b) == (b.maxx - b.minx) * (b.maxy - b.miny)

\* poly.bounds
Bounds(poly) ==
  LET xs == {poly[i][1] : i \in DOMAIN poly}
      ys == {poly[i][2] : i \in DOMAIN poly}
  IN  [minx |-> CHOOSE x \in xs : \A z \in xs : x <= z,
       miny |-> CHOOSE y \in ys : \A z \in ys : y <= z,
       maxx |-> CHOOSE x \in xs : \A z \in xs : x >= z,
       maxy |-> CHOOSE y \in ys : \A z \in ys : y >= z]

Nxt(poly, i) == IF i = Len(poly) THEN 1 ELSE i + 1

\* Twice the signed area of a polygon (shoelace sum).
SignedArea2(poly) ==
  SeqSum([i \in DOMAIN poly |->
            poly[i][1] * poly[Nxt(poly, i)][2] - poly[Nxt(poly, i)][1] * poly[i][2]])

\* Twice site_poly.area
Area2(poly) == Abs(SignedArea2(poly))

\* poly.buffer(-margin/2) of a box, in doubled coordinates (so that margin/2
\* stays an integer); an empty geometry when the box collapses.
EmptyGeom == [empty |-> TRUE]
BufferNegHalf2(b, margin) ==
  IF 2 * b.minx + margin >= 2 * b.maxx - margin \/ 2 * b.miny + margin >= 2 * b.maxy - margin
  THEN EmptyGeom
  ELSE [empty |-> FALSE,
        minx |-> 2 * b.minx + margin, miny |-> 2 * b.miny + margin,
        maxx |-> 2 * b.maxx - margin, maxy |-> 2 * b.maxy - margin]

Corners(b) == {<<b.minx, b.miny>>, <<b.maxx, b.miny>>, <<b.maxx, b.maxy>>, <<b.minx, b.maxy>>}

\* Cross product of edge i of the polygon with the vector to the point p2/2
\* (p2 in doubled coordinates), times 2.
Cross2(poly, i, p2) ==
  LET p == poly[i]
      q == poly[Nxt(poly, i)]
  IN  (q[1] - p[1]) * (p2[2] - 2 * p[2]) - (q[2] - p[2]) * (p2[1] - 2 * p[1])

\* site_poly.contains(g) for a (possibly empty) box g in doubled coordinates.
\* A geometry contains no empty geometry; a polygon of zero area contains no box.
Contains2(site_poly, g) ==
  /\ ~g.empty
  /\ LET a == SignedArea2(site_poly)
     IN  /\ a # 0
         /\ \A c \in Corners(g) : \A i \in DOMAIN site_poly :
               IF a > 0 THEN Cross2(site_poly, i, c) >= 0 ELSE Cross2(site_poly, i, c) <= 0

\* box.intersects(box): closed sets, so touching boxes intersect.
BoxIntersects(a, b) ==
  /\ a.minx <= b.maxx /\ b.minx <= a.maxx
  /\ a.miny <= b.maxy /\ b.miny <= a.maxy

\* box.intersects(segment p-q), by the separating axes x, y and the segment's normal.
SegIntersects(b, p, q) ==
  /\ Min(p[1], q[1]) <= b.maxx /\ b.minx <= Max(p[1], q[1])
  /\ Min(p[2], q[2]) <= b.maxy /\ b.miny <= Max(p[2], q[2])
  /\ LET d == {(q[1] - p[1]) * (c[2] - p[2]) - (q[2] - p[2]) * (c[1] - p[1]) : c \in Corners(b)}
     IN  (\E v \in d : v <= 0) /\ (\E v \in d : v >= 0)

\* poly.intersects(line) for a LineString (a sequence of two or more points).
LineIntersects(b, line) ==
  \E i \in 1..(Len(line) - 1) : SegIntersects(b, line[i], line[i + 1])

\* Squared distance between two boxes.
BoxDist2(a, b) ==
  LET dx == Max(0, Max(b.minx - a.maxx, a.minx - b.maxx))
      dy == Max(0, Max(b.miny - a.maxy, a.miny - b.maxy))
  IN  dx * dx + dy * dy

\* section_poly.buffer(d): the box grown by d with rounded corners.
Buffer(b, d) == [base |-> b, d |-> d]

\* buffer.area: the box, four side strips and four quarter discs, each quarter
\* disc drawn by shapely as 16 segments (32 * sin(2*pi/64) = 3.1365...).
BufferArea(g) ==
  BoxArea(g.base) + 2 * g.d * ((g.base.maxx - g.base.minx) + (g.base.maxy - g.base.miny))
    + (31365 * g.d * g.d) \div 10000

\* buffer.intersects(box)
BufferIntersects(g, b) == BoxDist2(g.base, b) <= g.d * g.d

\* site_poly.contains(buffer): every point of the grown box is inside, i.e. each
\* corner of the base box is at least d away from every edge line.
ContainsBuffer(site_poly, g) ==
  /\ SignedArea2(site_poly) # 0
  /\ LET s == IF SignedArea2(site_poly) > 0 THEN 1 ELSE -1
     IN  \A c \in Corners(g.base) : \A i \in DOMAIN site_poly :
           LET p  == site_poly[i]
               q  == site_poly[Nxt(site_poly, i)]
               cr == s * ((q[1] - p[1]) * (c[2] - p[2]) - (q[2] - p[2]) * (c[1] - p[1]))
               l2 == (q[1] - p[1]) * (q[1] - p[1]) + (q[2] - p[2]) * (q[2] - p[2])
           IN  cr >= 0 /\ cr * cr >= g.d * g.d * l2

(***************************************************************************)
(* src/viz.py:26-27                                                        *)
(***************************************************************************)
meters_to_degrees(meters, lat) == 2 * meters


(***************************************************************************)
(* src/viz.py:29-35  generate_all_combinations                             *)
(*                                                                         *)
(* permutations(sections) are put into a set, which hashes each tuple and  *)
(* so each of its elements: a section that is a dict (as every value of    *)
(* SECTION_TYPES is) raises TypeError on the first permutation.  For       *)
(* hashable sections the result lists the distinct permutations in the     *)
(* set's iteration order, which the code does not fix: the operator is the *)
(* set of the outcomes a call may have.                                    *)
(***************************************************************************)
RECURSIVE Orderings(_)
Orderings(S) ==
  IF S = {} THEN {<<>>}
  ELSE UNION {{<<x>> \o o : o \in Orderings(S \ {x})} : x \in S}

\* itertools.permutations(sections), as the set unique_combs collects them
permutations(sections) ==
  {[i \in DOMAIN sections |-> sections[p[i]]] : p \in Orderings(DOMAIN sections)}

Raise(exc) == [kind |-> "raise", exc |-> exc]
Return(value) == [kind |-> "return", value |-> value]

generate_all_combinations(sections, hashable) ==
  IF sections # <<>> /\ ~hashable
  THEN {Raise("TypeError")}
  ELSE {Return(o) : o \in Orderings(permutations(sections))}

(***************************************************************************)
(* src/viz.py:192-197  calculate_score                                     *)
(* efficiency is the exact fraction num/den; the weights are in tenths.    *)
(***************************************************************************)
calculate_score(living_area, green_area, efficiency, params) ==
  LET living_score == living_area * params.living_weight
      green_score == green_area * params.green_weight
      efficiency_score == [num |-> efficiency.num * params.efficiency_weight,
                           den |-> efficiency.den]
  IN  living_score + green_score + green_score

(***************************************************************************)
(* src/viz.py:159-175  is_valid_placement                                  *)
(***************************************************************************)
\* (mutants: the check against the sections placed before, or against the red
\* lines, left out)
is_valid_placement_no_sections(poly, site_poly, existing_sections, margin, red_lines) ==
  IF ~Contains2(site_poly, BufferNegHalf2(poly, margin)) THEN FALSE
  ELSE IF \E k \in DOMAIN red_lines : LineIntersects(poly, red_lines[k]) THEN FALSE
  ELSE TRUE

is_valid_placement_no_red_lines(poly, site_poly, existing_sections, margin, red_lines) ==
  IF ~Contains2(site_poly, BufferNegHalf2(poly, margin)) THEN FALSE
  ELSE IF \E k \in DOMAIN existing_sections : BoxIntersects(poly, existing_sections[k].poly)
       THEN FALSE
  ELSE TRUE

\* The red lines loop returning True at the first line that is not crossed
is_valid_placement_return_in_loop(poly, site_poly, existing_sections, margin, red_lines) ==
  /\ Contains2(site_poly, BufferNegHalf2(poly, margin))
  /\ IF red_lines # <<>>
     THEN ~LineIntersects(poly, red_lines[1])
     ELSE \A k \in DOMAIN existing_sections : ~BoxIntersects(poly, existing_sections[k].poly)

is_valid_placement(poly, site_poly, existing_sections, margin, red_lines) ==
  IF ~Contains2(site_poly, BufferNegHalf2(poly, margin)) THEN FALSE
  ELSE IF \E k \in DOMAIN red_lines : LineIntersects(poly, red_lines[k]) THEN FALSE
  ELSE IF \E k \in DOMAIN existing_sections : BoxIntersects(poly, existing_sections[k].poly)
       THEN FALSE
  ELSE TRUE

(***************************************************************************)
(* src/viz.py:177-190  validate_green_zones                                *)
(* unary_union of no zone is an empty geometry, which no polygon contains. *)
(***************************************************************************)
validate_green_zones(green_zones, sections, site_poly) ==
  IF \E k \in DOMAIN sections : \E z \in DOMAIN green_zones :
       BufferIntersects(green_zones[z], sections[k].poly)
  THEN FALSE
  ELSE IF green_zones = <<>> \/ \E z \in DOMAIN green_zones :
            ~ContainsBuffer(site_poly, green_zones[z])
  THEN FALSE
  ELSE TRUE

(***************************************************************************)
(* src/viz.py:93-157  try_place_combination                                *)
(***************************************************************************)
\* site_poly.centroid.y: only its cosine is used, which is 1/2 for every parcel drawn
CentroidLat(site_poly) == (Bounds(site_poly).miny + Bounds(site_poly).maxy) \div 2

\* (mutant: the size never swapped)
OrientedSize_never_swapped(section, angle) == section.size

\* line 103: section['size'] if angle == 0 else section['size'][::-1]
OrientedSize(section, angle) ==
  IF angle = 0 THEN section.size ELSE <<section.size[2], section.size[1]>>

\* (mutant: living_area = ... in place of living_area += ...)
LivingAreaAfter_assigned(living_area, section, section_poly, section_data) ==
  IF section.type = "living"
  THEN BoxArea(section_poly) * section_data.floors
  ELSE living_area

\* lines 127-129: the living area after one more section
LivingAreaAfter(living_area, section, section_poly, section_data) ==
  IF section.type = "living"
  THEN living_area + BoxArea(section_poly) * section_data.floors
  ELSE living_area

\* (mutant: a section that is not valid is left out and the loop goes on)
RECURSIVE PlaceLoop_skips_invalid(_, _, _)
PlaceLoop_skips_invalid(c, i, st) ==
  IF i > Len(c.combination) THEN st
  ELSE
    LET section == c.combination[i]
        wh == OrientedSize(section, c.angle)
        w_deg == meters_to_degrees(wh[1], CentroidLat(c.site_poly))
        h_deg == meters_to_degrees(wh[2], CentroidLat(c.site_poly))
        section_poly == box(st.current_x, c.start_lat, st.current_x + w_deg, c.start_lat + h_deg)
        section_data == [poly |-> section_poly, type |-> section.type,
                         color |-> section.color, size |-> wh,
                         floors |-> IF section.floors THEN c.params.floors ELSE 1]
    IN  PlaceLoop_skips_invalid(c, i + 1,
          IF ~is_valid_placement(section_poly, c.site_poly, st.placed_sections,
                                 c.margin_deg, c.params.red_lines)
          THEN [st EXCEPT !.current_x = st.current_x + w_deg + c.spacing_deg]
          ELSE [current_x |-> st.current_x + w_deg + c.spacing_deg,
                placed_sections |-> Append(st.placed_sections, section_data),
                living_area |-> LivingAreaAfter(st.living_area, section, section_poly, section_data),
                green_zones |->
                  IF c.params.green_zones /\ section.type \in {"living", "social"}
                  THEN Append(st.green_zones, Buffer(section_poly, c.green_buffer_deg))
                  ELSE st.green_zones])

\* lines 101-136: the loop over the combination, from its i-th section on;
\* None as soon as a section is not valid.
RECURSIVE PlaceLoop(_, _, _)
PlaceLoop(c, i, st) ==
  IF i > Len(c.combination) THEN st
  ELSE
    LET section == c.combination[i]
        wh == OrientedSize(section, c.angle)
        w_deg == meters_to_degrees(wh[1], CentroidLat(c.site_poly))
        h_deg == meters_to_degrees(wh[2], CentroidLat(c.site_poly))
        section_poly == box(st.current_x, c.start_lat, st.current_x + w_deg, c.start_lat + h_deg)
    IN  IF ~is_valid_placement(section_poly, c.site_poly, st.placed_sections,
                               c.margin_deg, c.params.red_lines)
        THEN None
        ELSE
          LET section_data == [poly |-> section_poly, type |-> section.type,
                               color |-> section.color, size |-> wh,
                               floors |-> IF section.floors THEN c.params.floors ELSE 1]
          IN  PlaceLoop(c, i + 1,
                [current_x |-> st.current_x + w_deg + c.spacing_deg,
                 placed_sections |-> Append(st.placed_sections, section_data),
                 living_area |-> LivingAreaAfter(st.living_area, section, section_poly, section_data),
                 green_zones |->
                   IF c.params.green_zones /\ section.type \in {"living", "social"}
                   THEN Append(st.green_zones, Buffer(section_poly, c.green_buffer_deg))
                   ELSE st.green_zones])

try_place_combination(site_poly, combination, angle, start_lon, start_lat, spacing_deg, margin_deg, green_buffer_deg, params) ==
  LET c == [site_poly |-> site_poly, combination |-> combination, angle |-> angle,
            start_lat |-> start_lat, spacing_deg |-> spacing_deg, margin_deg |-> margin_deg,
            green_buffer_deg |-> green_buffer_deg, params |-> params]
      st == PlaceLoop(c, 1, [current_x |-> start_lon, placed_sections |-> <<>>,
                             green_zones |-> <<>>, living_area |-> 0])
  IN  IF st = None THEN None
      ELSE IF params.green_zones
              /\ ~validate_green_zones(st.green_zones, st.placed_sections, site_poly)
      THEN None
      ELSE
        LET total_area == SeqSum([k \in DOMAIN st.placed_sections |->
                                    BoxArea(st.placed_sections[k].poly)
                                      * st.placed_sections[k].floors])
            \* living_area / site area: 2 * living_area over twice the area
            efficiency == [num |-> 2 * st.living_area, den |-> Area2(site_poly)]
            green_area == SeqSum([k \in DOMAIN st.green_zones |-> BufferArea(st.green_zones[k])])
        IN  [position |-> <<start_lon, start_lat>>,
             angle |-> angle,
             sections |-> st.placed_sections,
             green_zones |-> st.green_zones,
             living_area |-> st.living_area,
             total_area |-> total_area,
             green_area |-> green_area,
             efficiency |-> efficiency,
             score |-> calculate_score(st.living_area, green_area, efficiency, params)]

(***************************************************************************)
(* src/viz.py:37-91  calculate_optimal_placements                          *)
(***************************************************************************)
\* np.arange(start, stop, step) for step > 0
Arange(start, stop, step) ==
  IF stop <= start THEN <<>>
  ELSE [k \in 1..((stop - start + step - 1) \div step) |-> start + (k - 1) * step]

\* sorted(placements, key=lambda x: -x['score']): stable, by decreasing score
RECURSIVE InsertByScore(_, _)
InsertByScore(sorted, p) ==
  IF sorted = <<>> THEN <<p>>
  ELSE IF Head(sorted).score >= p.score
       THEN <<Head(sorted)>> \o InsertByScore(Tail(sorted), p)
       ELSE <<p>> \o sorted

RECURSIVE SortedByScore(_)
SortedByScore(placements) ==
  IF placements = <<>> THEN <<>>
  ELSE LET n == Len(placements)
       IN  InsertByScore(SortedByScore(SubSeq(placements, 1, n - 1)), placements[n])

(***************************************************************************)
(* The loops of lines 55-89.  try_place_combination reads nothing of the   *)
(* placements found so far, so what one (angle, combination) pair finds is *)
(* the same whatever was found before it: GridWalk is lines 57-84 for one  *)
(* pair, in the order the grid is walked, and AppendFound is lines 86-89   *)
(* applied to what it finds.  A walk stops after max_results placements,   *)
(* since line 89 returns before any further one could be appended.         *)
(***************************************************************************)
\* lines 71-84: the inner loop over lat, from the j-th value on
RECURSIVE LatLoop(_, _, _, _, _)
LatLoop(c, lon, lats, j, found) ==
  IF Len(found) >= c.params.max_results \/ j > Len(lats) THEN found
  ELSE
    LET placement == try_place_combination(c.site_poly, c.combination, c.angle, lon,
                       lats[j], c.spacing_deg, c.margin_deg, c.green_buffer_deg, c.params)
    IN  LatLoop(c, lon, lats, j + 1,
                IF placement # None THEN Append(found, placement) ELSE found)

\* lines 68-84: the loop over lon, from the i-th value on
RECURSIVE LonLoop(_, _, _, _, _)
LonLoop(c, lons, lats, i, found) ==
  IF Len(found) >= c.params.max_results \/ i > Len(lons) THEN found
  ELSE LonLoop(c, lons, lats, i + 1, LatLoop(c, lons[i], lats, 1, found))

\* lines 57-84 for one combination under one angle: what the walk finds, or
\* the exception it raises before it has tried any position (max() of an
\* empty sequence; np.arange dividing by a step of zero, the inner one only
\* when the outer loop has a first value).
GridWalk(c0, angle, combination) ==
  LET lat == c0.centroid_lat
      widths == [k \in DOMAIN combination |->
                   IF angle = 0 THEN meters_to_degrees(combination[k].size[1], lat)
                   ELSE meters_to_degrees(combination[k].size[2], lat)]
      heights == [k \in DOMAIN combination |->
                   IF angle = 0 THEN meters_to_degrees(combination[k].size[2], lat)
                   ELSE meters_to_degrees(combination[k].size[1], lat)]
      total_width == SeqSum(widths) + (Len(combination) - 1) * c0.spacing_deg
  IN  IF combination = <<>> THEN [exc |-> "ValueError", found |-> <<>>]
      ELSE IF c0.lon_step = 0 THEN [exc |-> "ZeroDivisionError", found |-> <<>>]
      ELSE
        LET max_height == SeqMax(heights)
            lons == Arange(c0.bounds.minx + c0.margin_deg,
                           c0.bounds.maxx - total_width - c0.margin_deg, c0.lon_step)
        IN  IF lons = <<>> THEN [exc |-> "", found |-> <<>>]
            ELSE IF c0.lat_step = 0 THEN [exc |-> "ZeroDivisionError", found |-> <<>>]
            ELSE [exc |-> "",
                  found |-> LonLoop([site_poly |-> c0.site_poly, params |-> c0.params,
                                     spacing_deg |-> c0.spacing_deg,
                                     margin_deg |-> c0.margin_deg,
                                     green_buffer_deg |-> c0.green_buffer_deg,
                                     angle |-> angle, combination |-> combination],
                                    lons,
                                    Arange(c0.bounds.miny + c0.margin_deg,
                                           c0.bounds.maxy - max_height - c0.margin_deg,
                                           c0.lat_step),
                                    1, <<>>)]

\* The walks of a call: one per angle and distinct combination.
GridWalks(c0, combinations) ==
  {[angle |-> c0.params.angles[a], combination |-> comb,
    walk |-> GridWalk(c0, c0.params.angles[a], comb)] :
     a \in DOMAIN c0.params.angles, comb \in combinations}

\* (mutant: line 88 with > for >=)
RECURSIVE AppendFound_returns_late(_, _, _, _)
AppendFound_returns_late(params, found, k, acc) ==
  IF acc.ended # "" \/ k > Len(found) THEN acc
  ELSE LET placements == Append(acc.placements, found[k])
       IN  AppendFound_returns_late(params, found, k + 1,
                       [placements |-> placements,
                        ended |-> IF Len(placements) > params.max_results
                                  THEN "return" ELSE ""])

\* lines 86-89 for the placements one walk found, from the k-th on.  The
\* accumulator holds the placements so far and how the function has ended, if
\* it has ("" while running, "return" after line 89, else the exception).
RECURSIVE AppendFound(_, _, _, _)
AppendFound(params, found, k, acc) ==
  IF acc.ended # "" \/ k > Len(found) THEN acc
  ELSE LET placements == Append(acc.placements, found[k])
       IN  AppendFound(params, found, k + 1,
                       [placements |-> placements,
                        ended |-> IF Len(placements) >= params.max_results
                                  THEN "return" ELSE ""])

\* line 56: the loop over all_combinations, from the k-th on
RECURSIVE CombinationLoop(_, _, _, _, _, _)
CombinationLoop(params, walks, angle, all_combinations, k, acc) ==
  IF acc.ended # "" \/ k > Len(all_combinations) THEN acc
  ELSE LET w == (CHOOSE r \in walks :
                   r.angle = angle /\ r.combination = all_combinations[k]).walk
       IN  CombinationLoop(params, walks, angle, all_combinations, k + 1,
             IF w.exc # "" THEN [placements |-> acc.placements, ended |-> w.exc]
             ELSE AppendFound(params, w.found, 1, acc))

\* line 55: the loop over params['angles'], from the a-th on
RECURSIVE AngleLoop(_, _, _, _, _)
AngleLoop(params, walks, all_combinations, a, acc) ==
  IF acc.ended # "" \/ a > Len(params.angles) THEN acc
  ELSE AngleLoop(params, walks, all_combinations, a + 1,
                 CombinationLoop(params, walks, params.angles[a], all_combinations, 1, acc))

\* lines 55-91 with the list generate_all_combinations returned.  The outcome
\* names the line that returned (89: the first max_results found; 91: sorted).
PlacementsFor(params, walks, all_combinations) ==
  LET acc == AngleLoop(params, walks, all_combinations, 1,
                       [placements |-> <<>>, ended |-> ""])
  IN  IF acc.ended = "return" THEN [kind |-> "return", value |-> acc.placements, line |-> 89]
      ELSE IF acc.ended # "" THEN [kind |-> "raise", exc |-> acc.ended]
      ELSE [kind |-> "return",
            value |-> LET sorted == SortedByScore(acc.placements)
                      IN  SubSeq(sorted, 1, Min(Len(sorted), params.max_results)),
            line |-> 91]

\* lines 40-53: what the call derives from its arguments
Derived(site_poly, params) ==
  LET bounds == Bounds(site_poly)
      centroid_lat == CentroidLat(site_poly)
  IN  [site_poly |-> site_poly, params |-> params, bounds |-> bounds,
       centroid_lat |-> centroid_lat,
       margin_deg |-> meters_to_degrees(params.margin, centroid_lat),
       spacing_deg |-> meters_to_degrees(params.spacing, centroid_lat),
       green_buffer_deg |-> meters_to_degrees(params.green_buffer, centroid_lat),
       lon_step |-> (bounds.maxx - bounds.minx) \div GridSteps,
       lat_step |-> (bounds.maxy - bounds.miny) \div GridSteps]

\* The outcomes a call may have: one per iteration order of the set of
\* combinations.
calculate_optimal_placements(site_poly, sections, hashable, params) ==
  IF sections # <<>> /\ ~hashable
  THEN generate_all_combinations(sections, hashable)
  ELSE LET walks == GridWalks(Derived(site_poly, params), permutations(sections))
       IN  {PlacementsFor(params, walks, g.value) :
              g \in generate_all_combinations(sections, hashable)}

(***************************************************************************)
(* src/viz.py:249-261  the params the script builds from the widgets       *)
(***************************************************************************)
MakeParams(margin, spacing, floors, green_buffer, orientation, red_lines, living_weight, green_weight, efficiency_weight) ==
  [margin |-> margin, spacing |-> spacing, floors |-> floors,
   green_buffer |-> green_buffer, green_zones |-> green_buffer > 0,
   angles |-> IF orientation = "Lyubaya" THEN <<0, 90>>
              ELSE IF orientation = "Sever-Yug" THEN <<0>> ELSE <<90>>,
   red_lines |-> red_lines,
   living_weight |-> living_weight, green_weight |-> green_weight,
   efficiency_weight |-> efficiency_weight,
   max_results |-> MaxResults]

(***************************************************************************)
(* The inputs drawn.                                                       *)
(***************************************************************************)
\* Longest list of sections drawn
MaxSections == 2

\* The section types drawn
Catalog == {"Zhiloy_L", "Zhiloy_S", "Parking"}

SectionLists ==
  UNION {{[i \in 1..n |-> SECTION_TYPES[names[i]]] : names \in [1..n -> Catalog]} :
           n \in 0..MaxSections}

\* Parcels: a rectangle, a right triangle and a parallelogram
ProperParcels ==
  { <<<<0, 0>>, <<160, 0>>, <<160, 80>>, <<0, 80>>>>,
    <<<<0, 0>>, <<160, 0>>, <<0, 80>>>>,
    <<<<40, 0>>, <<160, 0>>, <<120, 80>>, <<0, 80>>>> }

\* Parcels of no area: three collinear points; the second has a bounding box
\* of no width.
DegenerateParcels ==
  { <<<<0, 0>>, <<80, 40>>, <<160, 80>>>>,
    <<<<0, 0>>, <<0, 40>>, <<0, 80>>>> }

Rectangle == <<<<0, 0>>, <<160, 0>>, <<160, 80>>, <<0, 80>>>>

NoRedLine == <<>>
RedLineSets == { NoRedLine, << <<<<100, 0>>, <<120, 80>>>> >> }

Margins == {0, 10}
Spacings == {0, 5}
Orientations == {"Lyubaya", "Sever-Yug", "Vostok-Zapad"}

\* The arguments of a call: every combination of the values given, with the
\* weights 0.5, 0.3, 0.2 the sliders start with.
ArgsOf(parcels, lists, hashables, margins, spacings, floors, green_buffers, red_line_sets) ==
  [site_poly : parcels, sections : lists, hashable : hashables,
   params : {MakeParams(m, s, f, g, o, r, 5, 3, 2) :
               m \in margins, s \in spacings, f \in floors, g \in green_buffers,
               o \in Orientations, r \in red_line_sets}]

CallArgs ==
  \* hashable sections on a parcel of positive area, no green zones
  ArgsOf(ProperParcels, SectionLists, {TRUE}, Margins, Spacings, {5}, {0}, RedLineSets)
  \* one floor
  \cup ArgsOf({Rectangle}, SectionLists, {TRUE}, {10}, {5}, {1}, {0}, {NoRedLine})
  \* green zones
  \cup ArgsOf({Rectangle}, SectionLists, {TRUE}, {10}, {5}, {5}, {5}, {NoRedLine})
  \* the sections the script passes: dicts
  \cup ArgsOf({Rectangle}, SectionLists, {FALSE}, {10}, {5}, {5}, {0, 5}, RedLineSets)
  \* parcels of no area
  \cup ArgsOf(DegenerateParcels, SectionLists, {TRUE}, Margins, {5}, {5}, {0}, {NoRedLine})

NotCalled == [kind |-> "none"]
NoRun == [script |-> "none"]
NoArgs == [kind |-> "none"]
NoWidgets == [kind |-> "none"]
NoPlacements == [has |-> FALSE, placements |-> <<>>]
BlankScreen == [error |-> "", success |-> FALSE, table |-> <<>>, info |-> FALSE]

(***************************************************************************)
(* Spec: calculate_optimal_placements applied to the inputs drawn.         *)
(***************************************************************************)
Init ==
  /\ args \in CallArgs
  /\ ret = NotCalled
  /\ pc = "call"
  /\ widgets = NoWidgets
  /\ button = FALSE
  /\ session_state = NoPlacements
  /\ screen = BlankScreen
  /\ since_request = "no request"
  /\ run = NoRun

Call ==
  /\ pc = "call"
  /\ ret' \in calculate_optimal_placements(args.site_poly, args.sections,
                                          args.hashable, args.params)
  /\ pc' = "done"
  /\ UNCHANGED <<args, widgets, button, session_state, screen, since_request, run>>

Next == Call

Spec == Init /\ [][Next]_vars

(***************************************************************************)
(* SpecApp: the Streamlit script, src/viz.py:199-398.  Every interaction   *)
(* with a widget runs the script again from the top with the widgets' new  *)
(* values; st.session_state lasts from run to run; st.stop() ends a run.   *)
(***************************************************************************)
\* What eval() makes of the text of the coordinates field: a list of points,
\* or an exception (ok = FALSE).
CoordInputs ==
  {[ok |-> FALSE, coords |-> <<>>]}
  \cup {[ok |-> TRUE, coords |-> c] :
          c \in {<<>>, <<<<0, 0>>, <<160, 80>>>>} \cup ProperParcels \cup DegenerateParcels}

\* The red lines field: no line, one line, or a "line" of one point
RedLineInputs == RedLineSets \cup { << <<<<100, 0>>>> >> }

SelectedSections ==
  UNION {[1..n -> Catalog] : n \in 1..MaxSections}

WidgetDomains ==
  [coord_input |-> CoordInputs, red_line_input |-> RedLineInputs,
   selected_sections |-> SelectedSections,
   margin |-> Margins, spacing |-> Spacings, floors |-> {5}, green_buffer |-> {0, 5},
   orientation |-> Orientations,
   living_weight |-> {5}, green_weight |-> {3}, efficiency_weight |-> {2}]

WidgetValues ==
  [coord_input : WidgetDomains.coord_input,
   red_line_input : WidgetDomains.red_line_input,
   selected_sections : WidgetDomains.selected_sections,
   margin : WidgetDomains.margin, spacing : WidgetDomains.spacing,
   floors : WidgetDomains.floors, green_buffer : WidgetDomains.green_buffer,
   orientation : WidgetDomains.orientation,
   living_weight : WidgetDomains.living_weight,
   green_weight : WidgetDomains.green_weight,
   efficiency_weight : WidgetDomains.efficiency_weight]

\* Polygon(coords) raises ValueError for one or two points; LineString(line)
\* raises for a single point.
PolygonRaises(coords) == Len(coords) \in {1, 2}
LineStringRaises(line) == Len(line) = 1

\* (mutant: sections that can be hashed)
DictHashable_yes == TRUE

\* A value of SECTION_TYPES is a dict, which is not hashable.
DictHashable == FALSE

\* The input parsing block without the test of line 240.
ParseInputs_no_min_points(w) ==
  LET failed(e) == [error |-> e, site_polygon |-> <<>>, red_lines |-> <<>>,
                    params |-> <<>>, sections |-> <<>>]
  IN  IF ~w.coord_input.ok THEN failed("input_error")
      ELSE IF PolygonRaises(w.coord_input.coords) THEN failed("input_error")
      ELSE IF \E k \in DOMAIN w.red_line_input : LineStringRaises(w.red_line_input[k])
           THEN failed("input_error")
      ELSE [error |-> "",
            site_polygon |-> w.coord_input.coords,
            red_lines |-> w.red_line_input,
            params |-> MakeParams(w.margin, w.spacing, w.floors, w.green_buffer,
                                  w.orientation, w.red_line_input, w.living_weight,
                                  w.green_weight, w.efficiency_weight),
            sections |-> [k \in DOMAIN w.selected_sections |->
                            SECTION_TYPES[w.selected_sections[k]]]]

\* lines 237-268: the input parsing block.  error is "" when the block ran
\* through, "min_points" for the message of line 241, "input_error" for that
\* of line 267 (both followed by st.stop()).
ParseInputs(w) ==
  LET failed(e) == [error |-> e, site_polygon |-> <<>>, red_lines |-> <<>>,
                    params |-> <<>>, sections |-> <<>>]
  IN  IF ~w.coord_input.ok THEN failed("input_error")
      ELSE IF Len(w.coord_input.coords) < 3 THEN failed("min_points")
      ELSE IF PolygonRaises(w.coord_input.coords) THEN failed("input_error")
      ELSE IF \E k \in DOMAIN w.red_line_input : LineStringRaises(w.red_line_input[k])
           THEN failed("input_error")
      ELSE [error |-> "",
            site_polygon |-> w.coord_input.coords,
            red_lines |-> w.red_line_input,
            params |-> MakeParams(w.margin, w.spacing, w.floors, w.green_buffer,
                                  w.orientation, w.red_line_input, w.living_weight,
                                  w.green_weight, w.efficiency_weight),
            sections |-> [k \in DOMAIN w.selected_sections |->
                            SECTION_TYPES[w.selected_sections[k]]]]

InitApp ==
  /\ widgets \in WidgetValues
  /\ button = FALSE
  /\ session_state = NoPlacements
  /\ screen = BlankScreen
  /\ since_request = "no request"
  /\ run = NoRun
  /\ args = NoArgs
  /\ ret = NotCalled
  /\ pc = "parse"

\* lines 237-268
InputParsing ==
  /\ pc = "parse"
  /\ LET r == ParseInputs(widgets)
     IN  IF r.error # ""
         THEN /\ screen' = [screen EXCEPT !.error = r.error]
              /\ pc' = "stopped"
         ELSE /\ pc' = "button"
              /\ UNCHANGED screen
  /\ UNCHANGED <<args, ret, widgets, button, session_state, since_request, run>>

\* (mutant: the assignment of line 283 made before the test of line 279 and
\* in the except block)
ButtonHandler_stores_on_failure ==
  /\ pc = "button"
  /\ IF button
     THEN LET r == ParseInputs(widgets)
          IN  /\ args' = [site_poly |-> r.site_polygon, sections |-> r.sections,
                          hashable |-> DictHashable, params |-> r.params]
              /\ \E out \in calculate_optimal_placements(r.site_polygon, r.sections,
                                                        DictHashable, r.params) :
                   /\ ret' = out
                   /\ IF out.kind = "raise"
                      THEN /\ screen' = [screen EXCEPT !.error = "calc_error"]
                           /\ pc' = "stopped"
                           /\ session_state' = [has |-> TRUE, placements |-> <<>>]
                      ELSE IF out.value = <<>>
                      THEN /\ screen' = [screen EXCEPT !.error = "no_valid_variant"]
                           /\ pc' = "stopped"
                           /\ session_state' = [has |-> TRUE, placements |-> out.value]
                      ELSE /\ session_state' = [has |-> TRUE, placements |-> out.value]
                           /\ screen' = [screen EXCEPT !.success = TRUE]
                           /\ pc' = "display"
     ELSE /\ pc' = "display"
          /\ UNCHANGED <<args, ret, session_state, screen>>
  /\ UNCHANGED <<widgets, button, since_request, run>>

\* lines 271-289
ButtonHandler ==
  /\ pc = "button"
  /\ IF button
     THEN LET r == ParseInputs(widgets)
          IN  /\ args' = [site_poly |-> r.site_polygon, sections |-> r.sections,
                          hashable |-> DictHashable, params |-> r.params]
              /\ \E out \in calculate_optimal_placements(r.site_polygon, r.sections,
                                                        DictHashable, r.params) :
                   /\ ret' = out
                   /\ IF out.kind = "raise"
                      THEN /\ screen' = [screen EXCEPT !.error = "calc_error"]
                           /\ pc' = "stopped"
                           /\ UNCHANGED session_state
                      ELSE IF out.value = <<>>
                      THEN /\ screen' = [screen EXCEPT !.error = "no_valid_variant"]
                           /\ pc' = "stopped"
                           /\ UNCHANGED session_state
                      ELSE /\ session_state' = [has |-> TRUE, placements |-> out.value]
                           /\ screen' = [screen EXCEPT !.success = TRUE]
                           /\ pc' = "display"
     ELSE /\ pc' = "display"
          /\ UNCHANGED <<args, ret, session_state, screen>>
  /\ UNCHANGED <<widgets, button, since_request, run>>

\* lines 291-398
Display ==
  /\ pc = "display"
  /\ screen' = IF session_state.has /\ session_state.placements # <<>>
               THEN [screen EXCEPT !.table = session_state.placements]
               ELSE [screen EXCEPT !.info = TRUE]
  /\ pc' = "done"
  /\ UNCHANGED <<args, ret, widgets, button, session_state, since_request, run>>

\* The user changes one widget, or presses the button: the script runs again.
NewRun ==
  /\ pc \in {"stopped", "done"}
  /\ \E b \in BOOLEAN :
       /\ button' = b
       /\ IF b THEN widgets' = widgets
          ELSE \E f \in DOMAIN WidgetDomains :
                 \E x \in WidgetDomains[f] \ {widgets[f]} :
                   widgets' = [widgets EXCEPT ![f] = x]
       /\ since_request' = IF b THEN "nothing"
                           ELSE IF since_request = "no request" THEN "no request"
                           ELSE "changed inputs"
  /\ pc' = "parse"
  /\ screen' = BlankScreen
  /\ args' = NoArgs
  /\ ret' = NotCalled
  /\ UNCHANGED <<session_state, run>>

NextApp == InputParsing \/ ButtonHandler \/ Display \/ NewRun

SpecApp == InitApp /\ [][NextApp]_vars

(***************************************************************************)
(* Properties of the layouts a call returns.                               *)
(***************************************************************************)
Returned == IF ret.kind = "return" THEN {ret.value[i] : i \in DOMAIN ret.value} ELSE {}

MarginDeg == meters_to_degrees(args.params.margin, CentroidLat(args.site_poly))
SpacingDeg == meters_to_degrees(args.params.spacing, CentroidLat(args.site_poly))

\* C1: in every layout returned, two distinct placed sections neither
\* intersect nor touch, and are at least spacing (in map units) apart.
C1_NoOverlap ==
  \A p \in Returned : \A i, j \in DOMAIN p.sections :
    i < j => /\ ~BoxIntersects(p.sections[i].poly, p.sections[j].poly)
             /\ BoxDist2(p.sections[i].poly, p.sections[j].poly) >= SpacingDeg * SpacingDeg

\* a layout of two or more sections was returned
C1_Witness == \E p \in Returned : Len(p.sections) >= 2

\* The box lies in the (convex) parcel eroded by margin: each corner is inside
\* every edge line and at least margin away from it.
WithinEroded(site_poly, b, margin) ==
  LET a == SignedArea2(site_poly)
  IN  /\ a # 0
      /\ \A c \in Corners(b) : \A i \in DOMAIN site_poly :
           LET p  == site_poly[i]
               q  == site_poly[Nxt(site_poly, i)]
               cr == (IF a > 0 THEN 1 ELSE -1)
                       * ((q[1] - p[1]) * (c[2] - p[2]) - (q[2] - p[2]) * (c[1] - p[1]))
               l2 == (q[1] - p[1]) * (q[1] - p[1]) + (q[2] - p[2]) * (q[2] - p[2])
           IN  cr >= 0 /\ cr * cr >= margin * margin * l2

\* C2: in every layout returned, every placed section lies within the parcel
\* eroded by margin, whatever the shape of the parcel.
C2_Containment ==
  \A p \in Returned : \A i \in DOMAIN p.sections :
    WithinEroded(args.site_poly, p.sections[i].poly, MarginDeg)

\* C3: in every layout returned, no placed section intersects (crosses or
\* touches) a red line of the request.
C3_NoRedLine ==
  \A p \in Returned : \A i \in DOMAIN p.sections : \A k \in DOMAIN args.params.red_lines :
    ~LineIntersects(p.sections[i].poly, args.params.red_lines[k])

\* a layout was returned for a request that has a red line
C3_Witness == Returned # {} /\ args.params.red_lines # <<>>

\* C4: the score of every layout is living_weight * living_area
\* + green_weight * green_area + efficiency_weight * efficiency, each term
\* once (both sides multiplied by the denominator of efficiency).
C4_ScoreIsWeightedSum ==
  \A p \in Returned :
    p.score * p.efficiency.den =
      (args.params.living_weight * p.living_area
         + args.params.green_weight * p.green_area) * p.efficiency.den
      + args.params.efficiency_weight * p.efficiency.num

FeasibleLayoutsOf(call) ==
  LET c0 == Derived(call.site_poly, call.params)
      AnchorsOf(angle, comb) ==
        LET lat == c0.centroid_lat
            widths == [k \in DOMAIN comb |->
                         meters_to_degrees(OrientedSize(comb[k], angle)[1], lat)]
            heights == [k \in DOMAIN comb |->
                         meters_to_degrees(OrientedSize(comb[k], angle)[2], lat)]
            lons == Arange(c0.bounds.minx + c0.margin_deg,
                           c0.bounds.maxx - (SeqSum(widths) + (Len(comb) - 1) * c0.spacing_deg)
                             - c0.margin_deg, c0.lon_step)
            lats == Arange(c0.bounds.miny + c0.margin_deg,
                           c0.bounds.maxy - SeqMax(heights) - c0.margin_deg, c0.lat_step)
        IN  {<<lons[i], lats[j]>> : i \in DOMAIN lons, j \in DOMAIN lats}
  IN  UNION {UNION {{try_place_combination(call.site_poly, comb, call.params.angles[a],
                                           xy[1], xy[2], c0.spacing_deg, c0.margin_deg,
                                           c0.green_buffer_deg, call.params) :
                       xy \in AnchorsOf(call.params.angles[a], comb)} \ {None} :
                    comb \in permutations(call.sections)} :
               a \in DOMAIN call.params.angles}

FeasibleLayouts == FeasibleLayoutsOf(args)

ParsingDone == pc # "parse"

\* The run was stopped with an error by the input parsing block: nothing was
\* computed, nothing put in st.session_state by it, nothing displayed
RejectedAtValidation ==
  /\ pc = "stopped"
  /\ screen.error # ""
  /\ ret = NotCalled
  /\ screen.table = <<>>
  /\ ~screen.success

\* The button handler of this run has called calculate_optimal_placements
Called == ret # NotCalled

PositiveArea(coords) == Len(coords) >= 3 /\ Area2(coords) > 0

\* C7: when the request is well-formed and no angle, ordering and grid anchor
\* gives a valid layout, calculate_optimal_placements returns the empty list
\* without raising and the run reports no error.
C7_EmptyResultIsBenign ==
  (Called /\ PositiveArea(args.site_poly) /\ FeasibleLayouts = {}) =>
    /\ ret.kind = "return" /\ ret.value = <<>>
    /\ screen.error = ""

\* C8: a parcel of fewer than 3 points is rejected by the input parsing: the
\* run stops with an error before the calculation is called, and it computes,
\* stores and displays no layout.
C8_TooFewPoints ==
  (ParsingDone /\ widgets.coord_input.ok /\ Len(widgets.coord_input.coords) < 3) =>
    RejectedAtValidation

\* a request for a parcel of two points was stopped with the message of line 241
C8_Witness ==
  /\ button
  /\ widgets.coord_input.ok /\ Len(widgets.coord_input.coords) = 2
  /\ pc = "stopped" /\ screen.error = "min_points" /\ ret = NotCalled

\* C9: a parcel of three or more points and zero area is rejected by the
\* input parsing, before the calculation starts, with no partial result.
C9_ZeroAreaRejected ==
  (ParsingDone /\ button /\ widgets.coord_input.ok
     /\ Len(widgets.coord_input.coords) >= 3
     /\ Area2(widgets.coord_input.coords) = 0) =>
    RejectedAtValidation

\* The row of sections does not fit the parcel's bounding box less the margin
\* on each side, at any of the angles allowed: it is too wide or too high.
Oversize(w) ==
  LET r == ParseInputs(w)
      c0 == Derived(r.site_polygon, r.params)
      n == Len(r.sections)
      TooBig(angle) ==
        LET widths == [k \in 1..n |->
                         meters_to_degrees(OrientedSize(r.sections[k], angle)[1],
                                           c0.centroid_lat)]
            heights == [k \in 1..n |->
                          meters_to_degrees(OrientedSize(r.sections[k], angle)[2],
                                            c0.centroid_lat)]
        IN  \/ SeqSum(widths) + (n - 1) * c0.spacing_deg
                 > (c0.bounds.maxx - c0.bounds.minx) - 2 * c0.margin_deg
            \/ SeqMax(heights) > (c0.bounds.maxy - c0.bounds.miny) - 2 * c0.margin_deg
  IN  /\ r.error = ""
      /\ PositiveArea(r.site_polygon)
      /\ \A a \in DOMAIN r.params.angles : TooBig(r.params.angles[a])

\* C10: a request whose sections are larger than the parcel's bounding box
\* less the margin fails during validation, with no layout and no unhandled
\* exception.
C10_OversizeRejected ==
  (ParsingDone /\ button /\ Oversize(widgets)) => RejectedAtValidation

(***************************************************************************)
(* Relations between calls.                                                *)
(***************************************************************************)
\* The arguments of the call with the spacing and the margin replaced
WithSpacingMargin(a, s, m) ==
  [a EXCEPT !.params.spacing = s, !.params.margin = m]

\* What calculate_optimal_placements may return or raise for arguments a
OutcomesOf(a) ==
  calculate_optimal_placements(a.site_poly, a.sections, a.hashable, a.params)

LayoutsOf(out) ==
  IF out.kind = "return" THEN {out.value[i] : i \in DOMAIN out.value} ELSE {}

\* C11: with everything else fixed, a call with a spacing and a margin no
\* larger than this call's finds a layout whenever this call found one, and
\* its best score is no lower than this call's best score.
C11_RelaxingNeverHurts ==
  (ret.kind = "return" /\ ret.value # <<>>) =>
    \A s \in {x \in Spacings : x <= args.params.spacing} :
      \A m \in {x \in Margins : x <= args.params.margin} :
        \A out \in OutcomesOf(WithSpacingMargin(args, s, m)) :
          /\ LayoutsOf(out) # {}
          /\ \A p \in Returned : \E q \in LayoutsOf(out) : q.score >= p.score

\* The calls of Spec, for the comparison of a request with the same request
\* and one more exclusion line
SpecLines == Init /\ [][Next]_vars

\* Exclusion lines that may be added to a request
ExtraLines == {<<<<100, 0>>, <<120, 80>>>>, <<<<0, 40>>, <<160, 40>>>>}

WithLine(a, line) ==
  [a EXCEPT !.params.red_lines = Append(a.params.red_lines, line)]

\* C12: with parcel, sections and parameters fixed, every layout feasible
\* with one more exclusion line is feasible without it, so the line never
\* adds feasible candidates.
C12_LineOnlyRemoves ==
  ret.kind = "return" =>
    LET without == FeasibleLayouts
    IN  \A line \in ExtraLines :
          LET with == FeasibleLayoutsOf(WithLine(args, line))
          IN  /\ with \subseteq without
              /\ Cardinality(with) <= Cardinality(without)

\* a request without lines for which an added line removes some feasible
\* layouts and leaves others
C12_Witness ==
  /\ ret.kind = "return"
  /\ args.params.red_lines = NoRedLine
  /\ \E line \in ExtraLines :
       /\ FeasibleLayoutsOf(WithLine(args, line)) # {}
       /\ FeasibleLayoutsOf(WithLine(args, line)) # FeasibleLayouts

\* C13: a second call with the same parcel, sections and parameters returns
\* the same layouts in the same order as this call did.
C13_SameInputsSameList ==
  ret.kind = "return" =>
    \A out \in OutcomesOf(args) : out.kind = "return" /\ out.value = ret.value

\* The angles the orientation mode permits
Permitted(orientation) ==
  IF orientation = "Lyubaya" THEN {0, 90}
  ELSE IF orientation = "Sever-Yug" THEN {0} ELSE {90}

\* The section of the request that section_data was made of
MadeOf(section_data, angle, section) ==
  /\ section_data.type = section.type
  /\ section_data.color = section.color
  /\ section_data.size = IF angle = 0 THEN section.size
                         ELSE <<section.size[2], section.size[1]>>

\* C14: every returned layout has an angle the orientation mode permits;
\* each placed rectangle has the section's (width, height) at angle 0 and
\* (height, width) at angle 90; and the row of rectangles ends before the
\* bounding box less the margin, as the grid walk's total_width and
\* max_height promise.
C14_AnglesAndSizes ==
  \A p \in Returned :
    LET c0 == Derived(args.site_poly, args.params)
    IN  /\ \E o \in Orientations :
             /\ args.params.angles = MakeParams(0, 0, 1, 0, o, <<>>, 5, 3, 2).angles
             /\ p.angle \in Permitted(o)
        /\ \E comb \in permutations(args.sections) :
             /\ Len(comb) = Len(p.sections)
             /\ \A k \in DOMAIN p.sections :
                  /\ MadeOf(p.sections[k], p.angle, comb[k])
                  /\ p.sections[k].poly.maxx - p.sections[k].poly.minx
                       = meters_to_degrees(p.sections[k].size[1], c0.centroid_lat)
                  /\ p.sections[k].poly.maxy - p.sections[k].poly.miny
                       = meters_to_degrees(p.sections[k].size[2], c0.centroid_lat)
        /\ \A k \in DOMAIN p.sections :
             /\ p.sections[k].poly.maxx < c0.bounds.maxx - c0.margin_deg
             /\ p.sections[k].poly.maxy < c0.bounds.maxy - c0.margin_deg

\* a layout at angle 90 holding a section that is not square was returned
C14_Witness ==
  \E p \in Returned :
    /\ p.angle = 90
    /\ \E k \in DOMAIN p.sections : p.sections[k].size = <<16, 28>>

\* Footprint area times the floors parameter for a section whose type has the
\* floors flag set, the footprint area once for any other section
FloorArea(section_data, section, params) ==
  BoxArea(section_data.poly) * (IF section.floors THEN params.floors ELSE 1)

\* C15: the living_area of every layout is the sum over its placed sections
\* of the footprint area, times the floors parameter where the section's type
\* has the floors flag set and counted once otherwise.
C15_LivingArea ==
  \A p \in Returned :
    \E comb \in permutations(args.sections) :
      /\ Len(comb) = Len(p.sections)
      /\ \A k \in DOMAIN p.sections : MadeOf(p.sections[k], p.angle, comb[k])
      /\ p.living_area
           = SeqSum([k \in DOMAIN p.sections |->
                       FloorArea(p.sections[k], comb[k], args.params)])

\* Twice the area of the parcel left outside the placed footprints and the
\* green buffers reserved around them
Residual2(site_poly, p) ==
  Area2(site_poly)
    - 2 * SeqSum([k \in DOMAIN p.sections |-> BoxArea(p.sections[k].poly)])
    - 2 * SeqSum([k \in DOMAIN p.green_zones |->
                    BufferArea(p.green_zones[k]) - BoxArea(p.green_zones[k].base)])

\* C16: the green_area of every layout is the residual parcel area, the
\* parcel less the placed footprints and the buffers around them, and so
\* never exceeds the parcel area.
C16_GreenAreaIsResidual ==
  \A p \in Returned :
    /\ 2 * p.green_area = Residual2(args.site_poly, p)
    /\ 2 * p.green_area <= Area2(args.site_poly)

(***************************************************************************)
(* Properties of what the script displays from run to run.                 *)
(***************************************************************************)
\* The lists of layouts a request with the widgets' present values computes
ComputedFor(w) ==
  LET r == ParseInputs(w)
  IN  {out.value : out \in {o \in calculate_optimal_placements(r.site_polygon, r.sections,
                                                              DictHashable, r.params) :
                              o.kind = "return"}}

C18_AllOrderingsOnce ==
  pc = "done" /\ ret # NotCalled =>
    \A out \in generate_all_combinations(args.sections, args.hashable) :
      /\ out.kind = "return"
      /\ {out.value[i] : i \in DOMAIN out.value} = permutations(args.sections)
      /\ \A i, j \in DOMAIN out.value : out.value[i] = out.value[j] => i = j

(***************************************************************************)
(* src/app.py  the CIAN radius search.                                     *)
(* One press of the button runs main() (lines 96-179).  The geocoder and    *)
(* the CIAN parser are outside the program: what they answer is chosen     *)
(* here.  Distances are whole kilometres.                                  *)
(***************************************************************************)
\* line 135: the distance given to a listing that could not be geocoded
FarAway == 999999

\* line 150: df_filtered.head(10)
HeadCount == 10

\* Most listings the parser returns
MaxListings == 11

\* Values of the radius slider drawn (line 94: 0.5 .. 10.0 km)
Radii == {1, 10}

\* What geocode_listing_address (lines 57-80) and geodesic (line 132) give
\* for a listing: None, or coordinates at some distance from the user
GeoAnswers ==
  {[coords_ad |-> FALSE, km |-> 0], [coords_ad |-> TRUE, km |-> 1],
   [coords_ad |-> TRUE, km |-> 2]}

\* lines 129-135: the row of the data frame after its geocoding
GeocodedRow(i, answer) ==
  IF answer.coords_ad
  THEN [index |-> i, listing_lat |-> "lat", listing_lon |-> "lon",
        distance_km |-> answer.km]
  ELSE [index |-> i, listing_lat |-> "None", listing_lon |-> "None",
        distance_km |-> FarAway]

\* (mutant: no row filtered out)
FilterByRadius_all(df, radius_km) == df

\* line 139: df[df["distance_km"] <= radius_km]
FilterByRadius(df, radius_km) ==
  SelectSeq(df, LAMBDA row : row.distance_km <= radius_km)

\* line 140: sort_values(by="distance_km", ascending=True); for so few rows
\* the sort is an insertion sort, which keeps rows of one distance in order
RECURSIVE SortByDistance(_)
SortByDistance(df) ==
  IF df = <<>> THEN <<>>
  ELSE LET rest == SortByDistance(SubSeq(df, 1, Len(df) - 1))
           row == df[Len(df)]
           before == SelectSeq(rest, LAMBDA r : r.distance_km <= row.distance_km)
           after == SelectSeq(rest, LAMBDA r : r.distance_km > row.distance_km)
       IN  before \o <<row>> \o after

\* line 150: head(10)
head(df, n) == SubSeq(df, 1, Min(n, Len(df)))

InitCian ==
  /\ run = [script |-> "app.py", pc |-> "button", radius_km |-> 1, total_ads |-> 0,
            df |-> <<>>, message |-> "", shown |-> <<>>]
  /\ args = NoArgs
  /\ ret = NotCalled
  /\ pc = "none"
  /\ widgets = NoWidgets
  /\ button = FALSE
  /\ session_state = NoPlacements
  /\ screen = BlankScreen
  /\ since_request = "no request"

\* lines 90-105: the inputs are read and the city is looked up
ReverseGeocode ==
  /\ run.script = "app.py" /\ run.pc = "button"
  /\ \E radius_km \in Radii, city_name \in BOOLEAN :
       run' = IF city_name
              THEN [run EXCEPT !.radius_km = radius_km, !.pc = "parse"]
              ELSE [run EXCEPT !.radius_km = radius_km, !.pc = "returned",
                               !.message = "no city"]
  /\ UNCHANGED viz

\* lines 107-124: the listings are fetched
ParseCian ==
  /\ run.script = "app.py" /\ run.pc = "parse"
  /\ \E n \in 0..MaxListings :
       run' = IF n = 0 THEN [run EXCEPT !.pc = "returned"]
              ELSE [run EXCEPT !.total_ads = n, !.pc = "geocode"]
  /\ UNCHANGED viz

\* lines 126-136: one turn of the geocoding loop
GeocodeListing ==
  /\ run.script = "app.py" /\ run.pc = "geocode"
  /\ Len(run.df) < run.total_ads
  /\ \E answer \in GeoAnswers :
       run' = [run EXCEPT !.df = Append(@, GeocodedRow(Len(run.df), answer))]
  /\ UNCHANGED viz

\* lines 138-179: the rows are filtered, sorted, cut and displayed
ShowNearest ==
  /\ run.script = "app.py" /\ run.pc = "geocode"
  /\ Len(run.df) = run.total_ads
  /\ LET df_filtered == SortByDistance(FilterByRadius(run.df, run.radius_km))
         top_10 == head(df_filtered, HeadCount)
     IN  run' = IF Len(df_filtered) = 0
                THEN [run EXCEPT !.pc = "returned", !.message = "none in radius"]
                ELSE [run EXCEPT !.pc = "returned", !.shown = top_10]
  /\ UNCHANGED viz

\* the button is pressed again
PressAgain ==
  /\ run.script = "app.py" /\ run.pc = "returned"
  /\ run' = [script |-> "app.py", pc |-> "button", radius_km |-> 1, total_ads |-> 0,
             df |-> <<>>, message |-> "", shown |-> <<>>]
  /\ UNCHANGED viz

NextCian == ReverseGeocode \/ ParseCian \/ GeocodeListing \/ ShowNearest \/ PressAgain

SpecCian == InitCian /\ [][NextCian]_vars

\* C19: the listings the radius search displays are at most 10, each at a
\* computed distance within the chosen radius, in order of non-decreasing
\* distance, and none of them is a listing whose address was not geocoded.
C19_NearestListings ==
  /\ Len(run.shown) <= 10
  /\ \A i \in DOMAIN run.shown :
       /\ run.shown[i].distance_km <= run.radius_km
       /\ run.shown[i].listing_lat # "None"
       /\ \E k \in DOMAIN run.df : run.df[k] = run.shown[i]
  /\ \A i, j \in DOMAIN run.shown :
       i < j => run.shown[i].distance_km <= run.shown[j].distance_km

\* ten listings are displayed, at two distances, out of more than ten that
\* were geocoded within the radius
C19_Witness ==
  /\ Len(run.shown) = 10
  /\ Len(FilterByRadius(run.df, run.radius_km)) > 10
  /\ run.shown[1].distance_km < run.shown[10].distance_km

(***************************************************************************)
(* src/new.py:5-34  calculate_kindergarten                                 *)
(* residential_area is a Python float and the divisions are float          *)
(* divisions, so the arithmetic is modelled as IEEE 754 binary64: a value  *)
(* is n * 2^e with n of at most 53 bits, every operation rounded to        *)
(* nearest, ties to even.  Python's int is exact.  A whole number is a     *)
(* sequence of limbs of 10 bits, least significant first, <<>> for 0.      *)
(***************************************************************************)
\* The width of the significand of a float
MantissaBits == 53

Base == 2 ^ 10

RECURSIVE Big(_)
Big(k) == IF k = 0 THEN <<>> ELSE <<k % Base>> \o Big(k \div Base)

RECURSIVE Strip(_)
Strip(L) == IF L # <<>> /\ L[Len(L)] = 0 THEN Strip(SubSeq(L, 1, Len(L) - 1)) ELSE L

\* L * k + c, for small k and c
MulAdd(L, k, c) ==
  LET carry[i \in 0..Len(L)] ==
        IF i = 0 THEN c ELSE (L[i] * k + carry[i - 1]) \div Base
  IN  Strip([i \in 1..Len(L) |-> (L[i] * k + carry[i - 1]) % Base]
              \o Big(carry[Len(L)]))

\* quotient and remainder of L by a small d
DivSmall(L, d) ==
  LET rem[i \in 1..(Len(L) + 1)] ==
        IF i = Len(L) + 1 THEN 0 ELSE (rem[i + 1] * Base + L[i]) % d
  IN  [q |-> Strip([i \in 1..Len(L) |-> (rem[i + 1] * Base + L[i]) \div d]),
       r |-> rem[1]]

\* number of bits of L
BitLen(L) ==
  IF L = <<>> THEN 0
  ELSE 10 * (Len(L) - 1)
         + (CHOOSE j \in 1..10 : 2 ^ (j - 1) <= L[Len(L)] /\ L[Len(L)] < 2 ^ j)

\* bit i of L, bit 0 the least significant
Bit(L, i) ==
  IF i \div 10 + 1 > Len(L) THEN 0 ELSE (L[i \div 10 + 1] \div 2 ^ (i % 10)) % 2

\* some of the lowest s bits of L is set
LowBitsSet(L, s) == \E i \in 0..(Min(s, BitLen(L)) - 1) : Bit(L, i) = 1

\* L \div 2^s
ShiftRight(L, s) ==
  LET q == s \div 10
      r == s % 10
  IN  IF Len(L) <= q THEN <<>>
      ELSE Strip([j \in 1..(Len(L) - q) |->
                    (L[j + q] \div 2 ^ r)
                      + (IF j + q + 1 <= Len(L)
                         THEN (L[j + q + 1] % 2 ^ r) * 2 ^ (10 - r) ELSE 0)])

\* L * 2^s
ShiftLeft(L, s) ==
  LET q == s \div 10
      r == s % 10
  IN  IF L = <<>> THEN <<>>
      ELSE Strip([j \in 1..q |-> 0]
                 \o [j \in 1..(Len(L) + 1) |->
                       (IF j <= Len(L) THEN (L[j] * 2 ^ r) % Base ELSE 0)
                         + (IF j > 1 THEN L[j - 1] \div 2 ^ (10 - r) ELSE 0)])

\* A < B
Less(A, B) ==
  \/ Len(A) < Len(B)
  \/ /\ Len(A) = Len(B)
     /\ \E i \in DOMAIN A :
          /\ A[i] < B[i]
          /\ \A j \in (i + 1)..Len(A) : A[j] = B[j]

MaxBig(A, B) == IF Less(A, B) THEN B ELSE A

\* L (with something below its last bit if sticky) rounded to MantissaBits
\* bits, to nearest, ties to even: the bits kept and the number dropped
RoundBits(L, sticky) ==
  IF BitLen(L) <= MantissaBits THEN [n |-> L, shift |-> 0]
  ELSE LET s == BitLen(L) - MantissaBits
           keep == ShiftRight(L, s)
           more == sticky \/ LowBitsSet(L, s - 1)
           up == Bit(L, s - 1) = 1 /\ (more \/ Bit(keep, 0) = 1)
       IN  [n |-> IF up THEN MulAdd(keep, 1, 1) ELSE keep, shift |-> s]

\* the float x / d, for a small integer d
FloatDiv(x, d) ==
  IF x.n = <<>> THEN x
  ELSE LET k == Max(0, 72 - BitLen(x.n))
           dv == DivSmall(ShiftLeft(x.n, k), d)
           r == RoundBits(dv.q, dv.r # 0)
       IN  [n |-> r.n, e |-> x.e - k + r.shift]

\* the float x * k, for a small integer k
FloatMul(x, k) ==
  LET r == RoundBits(MulAdd(x.n, k, 0), FALSE)
  IN  [n |-> r.n, e |-> x.e + r.shift]

\* a Python int as the dividend of a true division: i / d is the exact
\* quotient rounded once
IntAsExact(i) == [n |-> i, e |-> 0]

\* math.ceil(x) as a Python int
Ceil(x) ==
  IF x.e >= 0 THEN ShiftLeft(x.n, x.e)
  ELSE IF LowBitsSet(x.n, -x.e) THEN MulAdd(ShiftRight(x.n, -x.e), 1, 1)
  ELSE ShiftRight(x.n, -x.e)

\* lines 8, 12: math.ceil(max(50, residential_area / 10000 * norm)); 50 is a
\* whole number, so the ceiling of the maximum is the maximum of the ceilings
PlacesFor(residential_area, norm) ==
  MaxBig(Big(50), Ceil(FloatMul(FloatDiv(residential_area, 10000), norm)))

\* lines 9, 13: max(4, math.ceil(places / 20))
GroupsFor(places) ==
  MaxBig(Big(4), Ceil(FloatDiv(IntAsExact(places), 20)))

\* lines 16-21: math.ceil(places / 150) or math.ceil(places / 350)
BuildingsFor(places, is_attached) ==
  Ceil(FloatDiv(IntAsExact(places), IF is_attached THEN 150 ELSE 350))

calculate_kindergarten(residential_area, is_attached) ==
  LET places_old == PlacesFor(residential_area, 36)
      places_new == PlacesFor(residential_area, 27)
  IN  [old |-> [places |-> places_old, groups |-> GroupsFor(places_old),
                buildings |-> BuildingsFor(places_old, is_attached)],
       new |-> [places |-> places_new, groups |-> GroupsFor(places_new),
                buildings |-> BuildingsFor(places_new, is_attached)]]

\* The areas drawn: k * 2^e square metres
MaxMantissa == 40
AreaExponents == {-1, 0, 10, 16, 24, 40, 50, 60}
Areas == {[n |-> Big(k), e |-> x] : k \in 0..MaxMantissa, x \in AreaExponents}

InitKindergarten ==
  /\ run = [script |-> "new.py", pc |-> "call", residential_area |-> <<>>,
            is_attached |-> FALSE, result |-> None]
  /\ args = NoArgs
  /\ ret = NotCalled
  /\ pc = "none"
  /\ widgets = NoWidgets
  /\ button = FALSE
  /\ session_state = NoPlacements
  /\ screen = BlankScreen
  /\ since_request = "no request"

CallKindergarten ==
  /\ run.script = "new.py" /\ run.pc = "call"
  /\ \E residential_area \in Areas, is_attached \in BOOLEAN :
       run' = [run EXCEPT !.pc = "done",
                          !.residential_area = residential_area,
                          !.is_attached = is_attached,
                          !.result = calculate_kindergarten(residential_area, is_attached)]
  /\ UNCHANGED viz

NextKindergarten == CallKindergarten

SpecKindergarten == InitKindergarten /\ [][NextKindergarten]_vars

\* C20: for every residential_area >= 0 and both values of is_attached the
\* result has, under the old and the new norm, places >= 50, groups >= 4,
\* groups * 20 >= places and buildings >= 1, and the places, groups and
\* buildings of the new norm are no more than those of the old one.
C20_KindergartenBounds ==
  run.pc = "done" =>
    /\ \A norm \in {"old", "new"} :
         LET r == run.result[norm]
         IN  /\ ~Less(r.places, Big(50))
             /\ ~Less(r.groups, Big(4))
             /\ ~Less(MulAdd(r.groups, 20, 0), r.places)
             /\ ~Less(r.buildings, Big(1))
    /\ ~Less(run.result.old.places, run.result.new.places)
    /\ ~Less(run.result.old.groups, run.result.new.groups)
    /\ ~Less(run.result.old.buildings, run.result.new.buildings)


(***************************************************************************)
(* Further properties of calculate_optimal_placements and                  *)
(* try_place_combination, checked on the same calls as Spec.               *)
(***************************************************************************)
SpecRows == Init /\ [][Next]_vars

\* C21: the list calculate_optimal_placements returns never holds more than
\* max_results layouts, whether it returned at line 89 (the first
\* max_results found) or at line 91 (sorted and cut).
C21_AtMostMaxResults ==
  ret.kind = "return" => Len(ret.value) <= args.params.max_results

\* the call returned at line 89 with more feasible layouts than max_results
C21_Witness ==
  /\ ret.kind = "return" /\ ret.line = 89
  /\ Cardinality(FeasibleLayouts) > args.params.max_results

\* Every attempt of the request: an angle, an ordering of the sections, a grid
\* anchor, and what try_place_combination returns for them
AttemptsOf(call) ==
  LET c0 == Derived(call.site_poly, call.params)
      AnchorsOf(angle, comb) ==
        LET lat == c0.centroid_lat
            widths == [k \in DOMAIN comb |->
                         meters_to_degrees(OrientedSize(comb[k], angle)[1], lat)]
            heights == [k \in DOMAIN comb |->
                         meters_to_degrees(OrientedSize(comb[k], angle)[2], lat)]
            lons == Arange(c0.bounds.minx + c0.margin_deg,
                           c0.bounds.maxx - (SeqSum(widths) + (Len(comb) - 1) * c0.spacing_deg)
                             - c0.margin_deg, c0.lon_step)
            lats == Arange(c0.bounds.miny + c0.margin_deg,
                           c0.bounds.maxy - SeqMax(heights) - c0.margin_deg, c0.lat_step)
        IN  {<<lons[i], lats[j]>> : i \in DOMAIN lons, j \in DOMAIN lats}
  IN  UNION {UNION {{[combination |-> comb, angle |-> call.params.angles[a], anchor |-> xy,
                      spacing_deg |-> c0.spacing_deg,
                      placement |-> try_place_combination(call.site_poly, comb,
                                      call.params.angles[a], xy[1], xy[2], c0.spacing_deg,
                                      c0.margin_deg, c0.green_buffer_deg, call.params)] :
                       xy \in AnchorsOf(call.params.angles[a], comb)} :
                    comb \in permutations(call.sections)} :
               a \in DOMAIN call.params.angles}

\* The layout of an attempt is the whole combination in one row from the anchor
SingleRow(t) ==
  LET placed == t.placement.sections
  IN  /\ t.placement.position = t.anchor
      /\ Len(placed) = Len(t.combination)
      /\ \A k \in DOMAIN placed :
           /\ MadeOf(placed[k], t.angle, t.combination[k])
           /\ placed[k].poly.miny = t.anchor[2]
           /\ placed[k].poly.minx = IF k = 1 THEN t.anchor[1]
                                    ELSE placed[k - 1].poly.maxx + t.spacing_deg

\* C22: every layout try_place_combination returns holds exactly one rectangle
\* per section of the combination, in the combination's order, in one row: all
\* start at the anchor's latitude, the first at the anchor's longitude and
\* each next one at the right edge of the one before plus the spacing; and
\* every layout the call returns is the layout of such an attempt.
C22_WholeCombinationInOneRow ==
  (pc = "done" /\ args.hashable /\ Len(args.sections) >= 1 /\ Area2(args.site_poly) > 0) =>
    LET attempts == AttemptsOf(args)
    IN  /\ \A t \in attempts : t.placement # None => SingleRow(t)
        /\ \A p \in Returned : \E t \in attempts : t.placement = p

\* a layout of two sections of different widths was returned for a request
\* with a spacing, and another attempt of the same request was turned down
C22_Witness ==
  /\ args.params.spacing > 0
  /\ \E p \in Returned :
       /\ Len(p.sections) = 2
       /\ p.sections[1].size # p.sections[2].size
  /\ \E t \in AttemptsOf(args) : t.placement = None

\* The row try_place_combination builds for an attempt at lines 101-136, None
\* when a section is not valid
RowOf(call, t) ==
  LET c0 == Derived(call.site_poly, call.params)
  IN  PlaceLoop([site_poly |-> call.site_poly, combination |-> t.combination,
                 angle |-> t.angle, start_lat |-> t.anchor[2],
                 spacing_deg |-> c0.spacing_deg, margin_deg |-> c0.margin_deg,
                 green_buffer_deg |-> c0.green_buffer_deg, params |-> call.params],
                1, [current_x |-> t.anchor[1], placed_sections |-> <<>>,
                    green_zones |-> <<>>, living_area |-> 0])

\* Every buffered footprint of the row lies inside the parcel and overlaps no
\* other section's footprint
BuffersFit(site_poly, st) ==
  \A z \in DOMAIN st.green_zones :
    /\ ContainsBuffer(site_poly, st.green_zones[z])
    /\ \A k \in DOMAIN st.placed_sections :
         st.placed_sections[k].poly # st.green_zones[z].base
           => ~BufferIntersects(st.green_zones[z], st.placed_sections[k].poly)

\* C23: with green zones enabled try_place_combination returns a layout
\* whenever every section passes is_valid_placement and every buffered
\* footprint lies inside the parcel and overlaps no other section's
\* footprint, whether or not the combination holds living or social sections.
C23_GreenZonesKeepFeasible ==
  (pc = "done" /\ args.hashable /\ Len(args.sections) >= 1
     /\ Area2(args.site_poly) > 0 /\ args.params.green_zones) =>
    \A t \in AttemptsOf(args) :
      LET st == RowOf(args, t)
      IN  (st # None /\ BuffersFit(args.site_poly, st)) => t.placement # None

(***************************************************************************)
(* Further properties of a run of the script.                              *)
(***************************************************************************)
\* C24: a step of the script changes st.session_state.placements only when it
\* is the button handler and the calculation returned a non-empty list, and
\* then it stores that list; a request that raises or finds no layout, and
\* every other step, leaves it as it was.
C24_FailureLeavesPlacements ==
  [][IF pc = "button" /\ button /\ ret'.kind = "return" /\ ret'.value # <<>>
     THEN session_state' = [has |-> TRUE, placements |-> ret'.value]
     ELSE session_state' = session_state]_vars

\* a request raised, the run stopped with the error, and nothing is stored
C24_Witness ==
  /\ pc = "stopped"
  /\ button
  /\ ret.kind = "raise"
  /\ screen.error = "calc_error"
  /\ session_state = NoPlacements

(***************************************************************************)
(* SpecSearch: the CIAN search app, src/cian.py.  The script runs once     *)
(* when the page is opened and again at every submit of the form;          *)
(* st.session_state (search_data, last_query, geo_cache) lasts from run to *)
(* run.  The geocoder and the CIAN parser are outside the program: what    *)
(* they answer is chosen here.  hash() of a string is seeded when the      *)
(* process starts: the function it is in a session is chosen at the start. *)
(***************************************************************************)
\* line 11
MAX_RETRIES == 3

\* line 13-21, the mapped values written as strings
CIAN_PARSER_CONFIG ==
  [room_mapping |-> ("Studiya" :> "studio") @@ ("1" :> "1") @@ ("2" :> "2")
                      @@ ("3" :> "3") @@ ("4+" :> "4")]

\* The texts typed into the address field, none with blanks around it, and
\* len() of each
Texts == {"", "ab", "addr_a", "addr_b"}

\* What the geocoder finds for a text: loc.address.split(',')[0]
Street(query) == IF query = "addr_a" THEN "street_a" ELSE "street_b"

len(text) == IF text = "" THEN 0 ELSE IF text = "ab" THEN 2 ELSE 6

\* The texts long enough to be looked up (line 123)
Lookups == {t \in Texts : len(t) >= 3}

\* Most values hash() takes on the texts drawn
MaxHash == 2

\* The values drawn for the other widgets: the radius in tenths of a
\* kilometre (line 213), the offer type (line 215), the rooms (line 217).
\* The first are the defaults.
FormChoices ==
  {[radius |-> 8, offer_type |-> "Vtorichka", rooms |-> <<"1", "2">>],
   [radius |-> 3, offer_type |-> "Vtorichka", rooms |-> <<"1", "2">>],
   [radius |-> 3, offer_type |-> "Novostroyka", rooms |-> <<>>]}

\* lines 38-48
prepare_rooms_param(selected_rooms) ==
  IF selected_rooms = <<>> THEN [all |-> TRUE, rooms |-> <<>>]
  ELSE LET known == SelectSeq(selected_rooms,
                              LAMBDA room : room \in DOMAIN CIAN_PARSER_CONFIG.room_mapping)
           cian_rooms == [k \in DOMAIN known |-> CIAN_PARSER_CONFIG.room_mapping[known[k]]]
       IN  IF cian_rooms # <<>> THEN [all |-> FALSE, rooms |-> cian_rooms]
           ELSE [all |-> TRUE, rooms |-> <<>>]

\* What one invocation of the parser (lines 89-104) gives for its arguments:
\* an exception, or raw data: none, rows without a required column, rows
\* with no usable price and area, or usable rows (of one of two contents)
ParserAnswers(address, cian_rooms, radius, offer_type) ==
  {[kind |-> "raise"], [kind |-> "no rows"], [kind |-> "no required columns"],
   [kind |-> "no numeric rows"]}
  \cup {[kind |-> "rows",
         rows |-> [location |-> address, rooms |-> cian_rooms, radius |-> radius,
                   method |-> IF offer_type = "Novostroyka" THEN "get_newbuildings"
                              ELSE "get_flats",
                   content |-> v]] : v \in {1, 2}}

\* lines 51-81: None, ValueError, or the cleaned frame
clean_data(raw_data) ==
  IF raw_data.kind = "no rows" THEN Return(None)
  ELSE IF raw_data.kind = "no required columns" THEN Raise("ValueError")
  ELSE IF raw_data.kind = "no numeric rows" THEN Return(None)
  ELSE Return(raw_data.rows)

\* What one turn of the loop of safe_cian_parse got from the parser and
\* clean_data: an exception, no cleaned data, or cleaned data
Outcome(answer) ==
  LET cleaned_data == IF answer.kind = "raise" THEN Raise("Exception")
                      ELSE clean_data(answer)
  IN  IF cleaned_data.kind = "raise" THEN [kind |-> "raise"]
      ELSE IF cleaned_data.value = None THEN [kind |-> "none"]
      ELSE [kind |-> "data", data |-> cleaned_data.value]

\* (mutant: the loop goes on after an attempt that gave cleaned data)
AfterAttempt_no_return(attempt, retry_count, answer) ==
  LET cleaned_data == IF answer.kind = "raise" THEN Raise("Exception")
                      ELSE clean_data(answer)
  IN  IF cleaned_data.kind = "raise"
      THEN IF attempt = retry_count - 1
           THEN [returned |-> TRUE, result |-> None, error |-> TRUE]
           ELSE [returned |-> FALSE, result |-> None, error |-> FALSE]
      ELSE IF attempt = retry_count - 1
      THEN [returned |-> TRUE,
            result |-> IF cleaned_data.value # None THEN [data |-> cleaned_data.value]
                       ELSE None,
            error |-> FALSE]
      ELSE [returned |-> FALSE, result |-> None, error |-> FALSE]

\* lines 88-119 for one turn of the loop, given what the parser answered:
\* whether safe_cian_parse returns in this turn (or, after the last turn, at
\* line 119), what it returns, and whether st.error was called (line 115)
AfterAttempt(attempt, retry_count, answer) ==
  LET cleaned_data == IF answer.kind = "raise" THEN Raise("Exception")
                      ELSE clean_data(answer)
  IN  IF cleaned_data.kind = "raise"
      THEN IF attempt = retry_count - 1
           THEN [returned |-> TRUE, result |-> None, error |-> TRUE]
           ELSE [returned |-> FALSE, result |-> None, error |-> FALSE]
      ELSE IF cleaned_data.value # None
      THEN [returned |-> TRUE, result |-> [data |-> cleaned_data.value], error |-> FALSE]
      ELSE IF attempt = retry_count - 1
      THEN [returned |-> TRUE, result |-> None, error |-> FALSE]
      ELSE [returned |-> FALSE, result |-> None, error |-> FALSE]

\* What geolocator.geocode (line 132) gives for a query: an exception, nothing,
\* or locations, here by the suggestions line 133 makes of them
GeocoderAnswers(query) ==
  {[kind |-> "raise"], [kind |-> "return", suggestions |-> <<>>],
   [kind |-> "return", suggestions |-> <<Street(query)>>]}

\* line 126: cache_key = hash(query)
CacheKey(hash, query) == hash[query]

\* lines 122-137, given the geocoder's answer: the suggestions returned, the
\* geo_cache afterwards and the way taken.  A cache entry also records the
\* query it was stored for, which the program does not keep.
get_address_suggestions(query, hash, geo_cache, answer) ==
  IF query = "" \/ len(query) < 3
  THEN [suggestions |-> <<>>, geo_cache |-> geo_cache, lookup |-> "short"]
  ELSE LET cache_key == CacheKey(hash, query)
       IN  IF cache_key \in DOMAIN geo_cache
           THEN [suggestions |-> geo_cache[cache_key].suggestions, geo_cache |-> geo_cache,
                 lookup |-> "cached"]
           ELSE IF answer.kind = "raise"
           THEN [suggestions |-> <<>>, geo_cache |-> geo_cache, lookup |-> "failed"]
           ELSE [suggestions |-> answer.suggestions,
                 geo_cache |-> (cache_key :> [suggestions |-> answer.suggestions,
                                              query |-> query]) @@ geo_cache,
                 lookup |-> "geocoded"]

\* st.session_state.last_query before any search (line 28)
NoQuery == [kind |-> "empty dict"]

\* The run that follows the opening of the page: the widgets have their
\* defaults and nothing was submitted; init_session_state (lines 24-30) has
\* filled the session state.
InitSearch ==
  /\ \E hash \in [Lookups -> 1..MaxHash] :
       run = [script |-> "cian.py", pc |-> "suggest", hash |-> hash,
              search_data |-> None, last_query |-> NoQuery, geo_cache |-> <<>>,
              text |-> "", pick |-> "", shown |-> <<>>, radius |-> 8,
              offer_type |-> "Vtorichka", rooms |-> <<"1", "2">>, submitted |-> FALSE,
              address |-> "", suggestions |-> <<>>, lookup |-> "",
              current_query |-> NoQuery, attempt |-> 0, invoked |-> <<>>,
              result |-> None, calls |-> 0, message |-> ""]
  /\ args = NoArgs
  /\ ret = NotCalled
  /\ pc = "none"
  /\ widgets = NoWidgets
  /\ button = FALSE
  /\ session_state = NoPlacements
  /\ screen = BlankScreen
  /\ since_request = "no request"

\* lines 195-209: the suggestions for the text typed, and the suggestion
\* picked, which lasts only while the select box shows the same options
\* ("" when nothing is selected: line 208 takes None and "" alike)
Suggest ==
  /\ run.script = "cian.py" /\ run.pc = "suggest"
  /\ \E answer \in GeocoderAnswers(run.text) :
       LET got == get_address_suggestions(run.text, run.hash, run.geo_cache, answer)
           selected == IF got.suggestions # <<>> /\ got.suggestions = run.shown
                       THEN run.pick ELSE ""
       IN  run' = [run EXCEPT !.pc = "form",
                              !.geo_cache = got.geo_cache,
                              !.suggestions = got.suggestions,
                              !.lookup = got.lookup,
                              !.address = IF selected # "" THEN selected ELSE run.text]
  /\ UNCHANGED viz

\* (mutant: line 235 compares the addresses only)
Submit_compares_address_only ==
  /\ run.script = "cian.py" /\ run.pc = "form"
  /\ IF ~run.submitted THEN run' = [run EXCEPT !.pc = "display"]
     ELSE IF run.address = "" \/ len(run.address) < 3
     THEN run' = [run EXCEPT !.pc = "stopped", !.message = "warning"]
     ELSE LET current_query == [address |-> run.address, radius |-> run.radius,
                                offer_type |-> run.offer_type, rooms |-> run.rooms]
          IN  IF run.last_query # NoQuery /\ current_query.address = run.last_query.address
                 /\ run.search_data # None
              THEN run' = [run EXCEPT !.pc = "display", !.current_query = current_query,
                                      !.message = "info"]
              ELSE run' = [run EXCEPT !.pc = "parse", !.current_query = current_query,
                                      !.calls = @ + 1, !.attempt = 0]
  /\ UNCHANGED viz

\* lines 223-244 up to the call of safe_cian_parse
Submit ==
  /\ run.script = "cian.py" /\ run.pc = "form"
  /\ IF ~run.submitted THEN run' = [run EXCEPT !.pc = "display"]
     ELSE IF run.address = "" \/ len(run.address) < 3
     THEN run' = [run EXCEPT !.pc = "stopped", !.message = "warning"]
     ELSE LET current_query == [address |-> run.address, radius |-> run.radius,
                                offer_type |-> run.offer_type, rooms |-> run.rooms]
          IN  IF current_query = run.last_query /\ run.search_data # None
              THEN run' = [run EXCEPT !.pc = "display", !.current_query = current_query,
                                      !.message = "info"]
              ELSE run' = [run EXCEPT !.pc = "parse", !.current_query = current_query,
                                      !.calls = @ + 1, !.attempt = 0]
  /\ UNCHANGED viz

\* lines 87-119: one turn of the loop of safe_cian_parse
Attempt ==
  /\ run.script = "cian.py" /\ run.pc = "parse"
  /\ run.attempt < MAX_RETRIES
  /\ \E answer \in ParserAnswers(run.address, prepare_rooms_param(run.rooms),
                                 run.radius, run.offer_type) :
       LET after == AfterAttempt(run.attempt, MAX_RETRIES, answer)
       IN  run' = [run EXCEPT !.invoked = Append(@, Outcome(answer)),
                              !.attempt = @ + 1,
                              !.result = after.result,
                              !.message = IF after.error THEN "error after retries" ELSE @,
                              !.pc = IF after.returned THEN "parsed" ELSE "parse"]
  /\ UNCHANGED viz

\* (mutant: last_query is written whatever the result)
HandleResult_always_records_query ==
  /\ run.script = "cian.py" /\ run.pc = "parsed"
  /\ run' = IF run.result # None
            THEN [run EXCEPT !.pc = "display", !.search_data = run.result.data,
                             !.last_query = run.current_query, !.message = "success",
                             !.attempt = 0, !.invoked = <<>>, !.result = None]
            ELSE [run EXCEPT !.pc = "display", !.message = "error",
                             !.last_query = run.current_query,
                             !.attempt = 0, !.invoked = <<>>, !.result = None]
  /\ UNCHANGED viz

\* lines 246-257; what is known of the turns of safe_cian_parse ends here
HandleResult ==
  /\ run.script = "cian.py" /\ run.pc = "parsed"
  /\ run' = IF run.result # None
            THEN [run EXCEPT !.pc = "display", !.search_data = run.result.data,
                             !.last_query = run.current_query, !.message = "success",
                             !.attempt = 0, !.invoked = <<>>, !.result = None]
            ELSE [run EXCEPT !.pc = "display", !.message = "error",
                             !.attempt = 0, !.invoked = <<>>, !.result = None]
  /\ UNCHANGED viz

\* lines 259-270
DisplayResults ==
  /\ run.script = "cian.py" /\ run.pc = "display"
  /\ run' = [run EXCEPT !.pc = "done"]
  /\ UNCHANGED viz

\* The form is submitted, with any values of its widgets: the script runs again
Resubmit ==
  /\ run.script = "cian.py" /\ run.pc \in {"done", "stopped"}
  /\ \E text \in Texts, form \in FormChoices,
        pick \in {""} \cup {run.suggestions[k] : k \in DOMAIN run.suggestions} :
       run' = [run EXCEPT !.pc = "suggest", !.text = text, !.pick = pick,
                          !.shown = run.suggestions, !.radius = form.radius,
                          !.offer_type = form.offer_type, !.rooms = form.rooms,
                          !.submitted = TRUE,
                          !.address = "", !.suggestions = <<>>, !.lookup = "",
                          !.current_query = NoQuery, !.attempt = 0, !.invoked = <<>>,
                          !.result = None, !.calls = 0, !.message = ""]
  /\ UNCHANGED viz

NextSearch == Suggest \/ Submit \/ Attempt \/ HandleResult \/ DisplayResults \/ Resubmit

SpecSearch == InitSearch /\ [][NextSearch]_vars

(***************************************************************************)
(* Properties of the CIAN search app.                                      *)
(***************************************************************************)
\* C25: one call of safe_cian_parse invokes the parser at most retry_count
\* times (MAX_RETRIES); an attempt that gave cleaned data is the last one and
\* the call returns that attempt's data; and the call returns None exactly
\* when no attempt gave cleaned data.
C25_RetriesAndResult ==
  run.pc \in {"parse", "parsed"} =>
    /\ Len(run.invoked) <= MAX_RETRIES
    /\ \A i \in DOMAIN run.invoked :
         run.invoked[i].kind = "data" =>
           /\ i = Len(run.invoked)
           /\ run.pc = "parsed"
           /\ run.result = [data |-> run.invoked[i].data]
    /\ run.pc = "parsed" =>
         (run.result = None <=> \A i \in DOMAIN run.invoked : run.invoked[i].kind # "data")

\* the call returned the data of its second attempt, after a first that raised
C25_Witness ==
  /\ run.pc = "parsed"
  /\ Len(run.invoked) = 2
  /\ run.invoked[1].kind = "raise"
  /\ run.invoked[2].kind = "data"
  /\ run.result # None

\* data is what the parser gives for the arguments safe_cian_parse makes of query
DataIsFor(data, query) ==
  /\ query # NoQuery
  /\ data.location = query.address
  /\ data.radius = query.radius
  /\ data.method = (IF query.offer_type = "Novostroyka" THEN "get_newbuildings"
                    ELSE "get_flats")
  /\ data.rooms = prepare_rooms_param(query.rooms)

\* C26: in every state of the session, search_data, when not None, is data
\* of a search for exactly the query in last_query; and a step changes
\* search_data or last_query only when a search has succeeded, and then it
\* writes both: the data returned and the query searched for.  A failed
\* search changes neither.
C26_DataMatchesLastQuery ==
  /\ [](run.search_data # None => DataIsFor(run.search_data, run.last_query))
  /\ [][(run'.search_data # run.search_data \/ run'.last_query # run.last_query)
          => /\ run.pc = "parsed" /\ run.result # None
             /\ run'.search_data = run.result.data
             /\ run'.last_query = run.current_query]_vars

\* a search for another query has failed while data of an earlier search is kept
C26_Witness ==
  /\ run.pc = "display"
  /\ run.message = "error"
  /\ run.search_data # None
  /\ run.current_query # run.last_query

\* The query the form submits (lines 228-233)
Submitted ==
  [address |-> run.address, radius |-> run.radius, offer_type |-> run.offer_type,
   rooms |-> run.rooms]

\* C27: when the form is submitted with a valid address, a query equal to
\* last_query while search_data is not None goes on without a call of
\* safe_cian_parse and leaves search_data and last_query as they were, and any
\* other query starts one call; safe_cian_parse is called nowhere else, so a
\* run that ends has made no call in the first case and exactly one in the
\* second.
C27_RepeatedQueryIsNotSearched ==
  /\ [][(run.pc = "form" /\ run.submitted /\ len(run.address) >= 3)
          => IF Submitted = run.last_query /\ run.search_data # None
             THEN /\ run'.calls = run.calls /\ run'.pc = "display"
                  /\ run'.search_data = run.search_data
                  /\ run'.last_query = run.last_query
             ELSE /\ run'.calls = run.calls + 1 /\ run'.pc = "parse"]_vars
  /\ [][(run'.calls # run.calls /\ run'.calls # 0) => run.pc = "form"]_vars
  /\ [](run.pc \in {"display", "done"} /\ run.submitted =>
          IF run.message = "info"
          THEN run.calls = 0 /\ run.current_query = run.last_query
                 /\ run.search_data # None
          ELSE run.calls = 1)

\* the query of the last successful search was submitted again and no call made
C27_Witness ==
  /\ run.pc = "display"
  /\ run.submitted
  /\ run.message = "info"
  /\ run.calls = 0
  /\ run.current_query = run.last_query

\* C28: for a query of at least 3 characters get_address_suggestions returns
\* suggestions the geocoder produced for that very query, or the empty list
\* on failure: what it takes from geo_cache was stored for the same query;
\* and a lookup that failed leaves geo_cache as it was.
C28_SuggestionsOfTheQuery ==
  /\ []((run.pc = "form" /\ len(run.text) >= 3) =>
          /\ run.lookup = "cached" =>
               run.geo_cache[CacheKey(run.hash, run.text)].query = run.text
          /\ run.lookup = "geocoded" =>
               run.geo_cache[CacheKey(run.hash, run.text)]
                 = [suggestions |-> run.suggestions, query |-> run.text]
          /\ run.lookup = "failed" => run.suggestions = <<>>)
  /\ [][(run.pc = "suggest" /\ run'.lookup = "failed")
          => run'.geo_cache = run.geo_cache]_vars

====
